---- MODULE Spec2Model ----
(***************************************************************************)
(* tinytoolkit/migrate: the migration engine of src/migrate.go.            *)
(*                                                                         *)
(* A Database value holds a connection, the name of the ledger table and   *)
(* a reference to the caller's Migrations.  MigrateUp and MigrateDown each *)
(* run inside one transaction (BeginTx ... defer Rollback ... Commit).     *)
(* The database is modelled as a reliable store: a statement fails only    *)
(* for the reasons SQL gives (a UNIQUE constraint, a missing table), not   *)
(* for loss of connectivity.  The Up and Down functions of a migration are *)
(* opaque callbacks: each execution either returns an error or takes       *)
(* effect on the schema inside the transaction.                            *)
(*                                                                         *)
(* src/migrate.go holds the engine twice: over pgx (lines 1-209) and over  *)
(* database/sql with sqlite3 (lines 210-447).  MigrateUp and MigrateDown   *)
(* have the same control flow in both; the model follows the second,       *)
(* which also has CurrentVersion.  A run starts from a fresh database (no  *)
(* ledger table) and a collection that the caller does not change.         *)
(*                                                                         *)
(* Three specifications share the operators of the engine:                 *)
(*   Spec         one engine on a fresh database;                          *)
(*   SpecApplied  one engine on a database on which part of the collection *)
(*                was applied before;                                      *)
(*   SpecEngines  two engines calling MigrateUp on one SQLite database.    *)
(***************************************************************************)
EXTENDS Integers, Sequences, FiniteSets, TLC

\* ------------------------------------------------------------------ bounds
\* Largest number of records in the caller's collection.
MaxLen == 2
\* Versions range over 0..MaxVersion (0 is the unset uint).
MaxVersion == 3
\* MigrateDown amounts range over -1..MaxAmount.
MaxAmount == 3

\* ------------------------------------------------------------- value sets
\* Description strings; "" is the unset string.
Descriptions == {"", "a", "b"}
\* Ledger table names; "migrations" is the default of New / NewWithConn.
DefaultTable == "migrations"
TableNames == {DefaultTable, "ledger2"}
\* A nil func value.
NilOp == 0
Versions == 0..MaxVersion
Amounts == (0 - 1)..MaxAmount

\* type Migration struct { Version; Description; Up; Down }.  Up and Down
\* are NilOp or the identity of the function literal: k for the functions
\* of the k-th record of the caller's collection.
MigrationAt(k) ==
    [Version : Versions, Description : Descriptions,
     Up : {NilOp, k}, Down : {NilOp, k}]

\* type Migrations []Migration, of at most MaxLen records.
IsMigrations(ms) ==
    /\ ms \in Seq(UNION { MigrationAt(k) : k \in 1..MaxLen })
    /\ Len(ms) <= MaxLen
    /\ \A k \in 1..Len(ms) : ms[k] \in MigrationAt(k)

\* The zero Migration value, held by the loop variable outside an iteration.
NoMigration == [Version |-> 0, Description |-> "", Up |-> NilOp, Down |-> NilOp]

VARIABLES
    migrations,      \* *db.migrations: the caller's collection
    sortedMs,        \* what Sorted() returns for that collection
    migrationTable,  \* db.migrationTable
    db,              \* the committed database: ledger tables and schema
    tx,              \* the database as seen inside the open transaction
    pc,              \* position of the call in progress, "idle" between calls
    op,              \* the call in progress or last finished: "up" / "down"
    amount,          \* MigrateDown's amount (after clamping, once it ran)
    arg,             \* MigrateDown's amount as passed by the caller
    index,           \* the applied index read at the start of the run
    i,               \* loop position (1-based) in sortedMs (up) or index (down)
    migration,       \* the record of the current iteration
    err,             \* the value returned by the call, "running" before
    pre,             \* the committed database when the call began
    trace,           \* operations executed by the run, in order
    runTable,        \* the ledger table that call works on
    afterUp,         \* the call before this one was a successful MigrateUp
                     \* on the same ledger table
    cv               \* the last result of CurrentVersion, if still current

vars == <<migrations, sortedMs, migrationTable, db, tx, pc, op, amount, arg,
          index, i, migration, err, pre, trace, runTable, afterUp, cv>>

\* ---------------------------------------------------------------- Sorted
\* Mutant: the comparison turned round.
LessDescending(a, b) == a.Version > b.Version

\* The less function handed to sort.Slice.
Less(a, b) == a.Version < b.Version

Injective(p) == \A x, y \in DOMAIN p : p[x] = p[y] => x = y

\* Mutant: the copy is returned without the sort.Slice call.
SortedOutcomesUnsorted(ms) == {ms}

\* sort.Slice on a copy: some permutation of the records that is ordered by
\* Less.  sort.Slice is not stable, so records with equal versions may come
\* out in either order.
SortedOutcomes(ms) ==
    { s \in { [k \in 1..Len(ms) |-> ms[p[k]]] :
                p \in { q \in [1..Len(ms) -> 1..Len(ms)] : Injective(q) } } :
        \A x, y \in 1..Len(s) : x < y => ~Less(s[y], s[x]) }

\* ---------------------------------------------------------- ledger store
NoTable == [exists |-> FALSE, rows |-> {}]

\* CREATE TABLE IF NOT EXISTS: version UNIQUE NOT NULL, description UNIQUE
\* NOT NULL (the surrogate id column carries no information and is left out).
CreateMigrationTable(d, t) ==
    IF d.tables[t].exists THEN d
    ELSE [d EXCEPT !.tables[t] = [exists |-> TRUE, rows |-> {}]]

Min(S) == CHOOSE x \in S : \A y \in S : x <= y
Max(S) == CHOOSE x \in S : \A y \in S : y <= x

RECURSIVE Ascending(_)
Ascending(S) == IF S = {} THEN <<>> ELSE <<Min(S)>> \o Ascending(S \ {Min(S)})

\* Mutant: ORDER BY version DESC.
GetMigrationIndexDescending(d, t) ==
    LET s == Ascending({ r.version : r \in d.tables[t].rows })
    IN  [k \in 1..Len(s) |-> s[Len(s) + 1 - k]]

\* Mutant: the table name is not taken from the engine, the default table is
\* always the one read.
GetMigrationIndexDefaultTable(d, t) ==
    Ascending({ r.version : r \in d.tables[DefaultTable].rows })

\* SELECT version FROM t ORDER BY version ASC.
GetMigrationIndex(d, t) == Ascending({ r.version : r \in d.tables[t].rows })

\* Mutant: the membership test is left out.
ContainsAlways(s, v) == TRUE

\* Mutant: a version counts as applied when it is not above the highest
\* applied version.
ContainsUpToHighest(s, v) == Len(s) > 0 /\ v <= s[Len(s)]

\* Mutant: the scan starts one element late.
ContainsSkipsFirst(s, v) == \E k \in 2..Len(s) : s[k] = v

\* slices.Contains(index, v).
Contains(s, v) == \E k \in 1..Len(s) : s[k] = v

\* The UNIQUE constraints an INSERT of (version, description) would break.
UniqueViolation(rows, version, description) ==
    \E r \in rows : r.version = version \/ r.description = description

\* Mutant: the row is not written.
InsertMigrationLost(d, t, version, description) == d

\* INSERT INTO t (version, description) VALUES (?, ?), constraints holding.
InsertMigration(d, t, version, description) ==
    [d EXCEPT !.tables[t].rows =
        @ \cup {[version |-> version, description |-> description]}]

\* Mutant: the row is not removed.
DeleteMigrationLost(d, t, version) == d

\* Mutant: the 0-based position version - 1 is passed where the version
\* belongs.
DeleteMigrationByPosition(d, t, version) ==
    [d EXCEPT !.tables[t].rows = { r \in @ : r.version # version - 1 }]

\* DELETE FROM t WHERE version = ?.
DeleteMigration(d, t, version) ==
    [d EXCEPT !.tables[t].rows = { r \in @ : r.version # version }]

\* What the database holds after tx.Commit(): the transaction's view.
Commit(committed, view) == view

\* Mutant: the transaction's changes stay.
RollbackKeepsView(committed, view) == view

\* Mutant: the ledger statements ran outside the transaction, only the
\* schema changes are undone.
RollbackSchemaOnly(committed, view) ==
    [view EXCEPT !.schema = committed.schema]

\* What the database holds after the deferred tx.Rollback(): what was
\* committed before, table creation included.
Rollback(committed, view) == committed

\* ------------------------------------------------------------ validation
\* Mutant: the description is not looked at.
UnsetVersionOnly(m) == m.Version = 0

\* migration.Version == 0 || migration.Description == "".
Unset(m) == m.Version = 0 \/ m.Description = ""

\* Mutant: only the forward operation is looked at.
MissingOpUpOnly(m) == m.Up = NilOp

\* migration.Up == nil || migration.Down == nil.
MissingOp(m) == m.Up = NilOp \/ m.Down = NilOp

\* The effect of a forward / reverse function on the schema: how many times
\* the change of function fn is in force.
ApplyUp(d, fn) == [d EXCEPT !.schema[fn] = @ + 1]
ApplyDown(d, fn) == [d EXCEPT !.schema[fn] = @ - 1]

Event(ev, m, fn) == [ev |-> ev, version |-> m.Version, fn |-> fn]

\* ------------------------------------------------------------------ Init
NoVersion == [called |-> FALSE, err |-> "none", version |-> 0]

Init ==
    /\ \E n \in 0..MaxLen :
        \E f \in [1..n -> [Version : Versions, Description : Descriptions,
                           up : BOOLEAN, down : BOOLEAN]] :
            migrations = [k \in 1..n |->
                [Version |-> f[k].Version,
                 Description |-> f[k].Description,
                 Up |-> IF f[k].up THEN k ELSE NilOp,
                 Down |-> IF f[k].down THEN k ELSE NilOp]]
    /\ sortedMs \in SortedOutcomes(migrations)
    /\ migrationTable = DefaultTable
    /\ db = [tables |-> [t \in TableNames |-> NoTable],
             schema |-> [k \in 1..Len(migrations) |-> 0]]
    /\ tx = db
    /\ pc = "idle"
    /\ op = "none"
    /\ amount = 0
    /\ arg = 0
    /\ index = <<>>
    /\ i = 0
    /\ migration = NoMigration
    /\ err = "none"
    /\ pre = db
    /\ trace = <<>>
    /\ runTable = DefaultTable
    /\ afterUp = FALSE
    /\ cv = NoVersion

\* -------------------------------------------------------- call and return
\* The first statements of MigrateUp and MigrateDown: BeginTx, the ledger
\* table, the applied index.
Begin(kind, a) ==
    /\ pc = "idle"
    /\ afterUp' = (op = "up" /\ err = "ok" /\ runTable = migrationTable)
    /\ op' = kind
    /\ arg' = a
    /\ pre' = db
    /\ runTable' = migrationTable
    /\ index' = GetMigrationIndex(CreateMigrationTable(db, migrationTable),
                                  migrationTable)
    /\ trace' = <<>>
    /\ cv' = NoVersion
    /\ UNCHANGED <<migrations, sortedMs, migrationTable>>

\* The call returns e and leaves the database as d.
Return(e, d) ==
    /\ pc' = "idle"
    /\ err' = e
    /\ db' = d
    /\ tx' = d
    /\ i' = 0
    /\ migration' = NoMigration

\* return <error>: the deferred Rollback discards the transaction.
Fail(e) == Return(e, Rollback(db, tx))

\* return tx.Commit().
Succeed == Return("ok", Commit(db, tx))

\* ------------------------------------------------------------- MigrateUp
MigrateUpBegin ==
    /\ Begin("up", 0)
    /\ tx' = CreateMigrationTable(db, migrationTable)
    /\ amount' = 0
    /\ i' = 1
    /\ err' = "running"
    /\ pc' = "up"
    /\ UNCHANGED <<db, migration>>

\* One iteration of the range loop up to and including migration.Up(tx).
MigrateUpStep ==
    /\ pc = "up"
    /\ i <= Len(sortedMs)
    /\ LET m == sortedMs[i] IN
        IF Unset(m) THEN
            Fail("validation") /\ UNCHANGED trace
        ELSE IF MissingOp(m) THEN
            Fail("validation") /\ UNCHANGED trace
        ELSE IF Contains(index, m.Version) THEN
            /\ i' = i + 1
            /\ UNCHANGED <<db, tx, pc, err, migration, trace>>
        ELSE
            \/ Fail("operation") /\ UNCHANGED trace
            \/ /\ tx' = ApplyUp(tx, m.Up)
               /\ trace' = Append(trace, Event("up", m, m.Up))
               /\ migration' = m
               /\ pc' = "upInsert"
               /\ UNCHANGED <<db, err, i>>
    /\ UNCHANGED <<migrations, sortedMs, migrationTable, op, amount, arg,
                   index, pre, runTable, afterUp, cv>>

\* db.insertMigration(ctx, tx, migration.Version, migration.Description).
MigrateUpInsert ==
    /\ pc = "upInsert"
    /\ IF UniqueViolation(tx.tables[migrationTable].rows,
                          migration.Version, migration.Description) THEN
            Fail("storage") /\ UNCHANGED trace
       ELSE
            /\ tx' = InsertMigration(tx, migrationTable,
                                     migration.Version, migration.Description)
            /\ trace' = Append(trace, Event("insert", migration, NilOp))
            /\ i' = i + 1
            /\ migration' = NoMigration
            /\ pc' = "up"
            /\ UNCHANGED <<db, err>>
    /\ UNCHANGED <<migrations, sortedMs, migrationTable, op, amount, arg,
                   index, pre, runTable, afterUp, cv>>

\* The loop is over: return tx.Commit().
MigrateUpCommit ==
    /\ pc = "up"
    /\ i > Len(sortedMs)
    /\ Succeed
    /\ UNCHANGED <<migrations, sortedMs, migrationTable, op, amount, arg,
                   index, pre, trace, runTable, afterUp, cv>>

\* ----------------------------------------------------------- MigrateDown
\* if amount > len(index) { amount = len(index) }.
Clamp(a, n) == IF a > n THEN n ELSE a

\* Mutant: the test never holds.
NeverNothingToRollback(ix) == Len(ix) < 0

\* len(index) == 0: "no migrations to rollback".
NothingToRollback(ix) == Len(ix) = 0

\* Whether the 0-based position v-1 of sorted()[index[i]-1] lies inside a
\* slice of n elements.  For v = 0 the uint subtraction wraps around to the
\* largest uint, which is out of range like the -1 computed here.
InRange(v, n) == v - 1 >= 0 /\ v - 1 < n

\* Mutant: > for >=, one iteration short.
DownLoopTestStrict(pos, n, a) == pos - 1 > n - a

\* Mutant: the body runs once before the condition is looked at.
DownLoopTestAfterBody(pos, n, a) == pos - 1 >= n - a \/ pos = n

\* for i := len(index) - 1; i >= len(index)-amount; i-- (0-based there,
\* 1-based here): the condition of the loop.
DownLoopTest(pos, n, a) == pos - 1 >= n - a

MigrateDownBegin ==
    \E a \in Amounts :
        /\ Begin("down", a)
        /\ IF NothingToRollback(index') THEN
                /\ Return("precondition",
                          Rollback(db, CreateMigrationTable(db, migrationTable)))
                /\ amount' = a
           ELSE
                /\ tx' = CreateMigrationTable(db, migrationTable)
                /\ amount' = Clamp(a, Len(index'))
                /\ i' = Len(index')
                /\ err' = "running"
                /\ pc' = "down"
                /\ UNCHANGED <<db, migration>>

\* One iteration of the loop up to and including migration.Down(tx).
MigrateDownStep ==
    /\ pc = "down"
    /\ DownLoopTest(i, Len(index), amount)
    /\ IF ~InRange(index[i], Len(sortedMs)) THEN
            \* index out of range: the goroutine panics, the deferred
            \* Rollback still runs.
            Fail("panic") /\ UNCHANGED trace
       ELSE LET m == sortedMs[index[i]] IN
        IF Unset(m) THEN
            Fail("validation") /\ UNCHANGED trace
        ELSE IF MissingOp(m) THEN
            Fail("validation") /\ UNCHANGED trace
        ELSE IF ~Contains(index, m.Version) THEN
            Fail("existence") /\ UNCHANGED trace
        ELSE
            \/ Fail("operation") /\ UNCHANGED trace
            \/ /\ tx' = ApplyDown(tx, m.Down)
               /\ trace' = Append(trace, Event("down", m, m.Down))
               /\ migration' = m
               /\ pc' = "downDelete"
               /\ UNCHANGED <<db, err, i>>
    /\ UNCHANGED <<migrations, sortedMs, migrationTable, op, amount, arg,
                   index, pre, runTable, afterUp, cv>>

\* db.deleteMigration(ctx, tx, migration.Version).
MigrateDownDelete ==
    /\ pc = "downDelete"
    /\ tx' = DeleteMigration(tx, migrationTable, migration.Version)
    /\ trace' = Append(trace, Event("delete", migration, NilOp))
    /\ i' = i - 1
    /\ migration' = NoMigration
    /\ pc' = "down"
    /\ UNCHANGED <<migrations, sortedMs, migrationTable, db, op, amount, arg,
                   index, err, pre, runTable, afterUp, cv>>

\* The loop is over: return tx.Commit().
MigrateDownCommit ==
    /\ pc = "down"
    /\ ~DownLoopTest(i, Len(index), amount)
    /\ Succeed
    /\ UNCHANGED <<migrations, sortedMs, migrationTable, op, amount, arg,
                   index, pre, trace, runTable, afterUp, cv>>

\* ------------------------------------------------------ SetMigrationTable
SetMigrationTable ==
    \E t \in TableNames :
        /\ pc = "idle"
        /\ t # migrationTable
        /\ migrationTable' = t
        /\ cv' = NoVersion
        /\ UNCHANGED <<migrations, sortedMs, db, tx, pc, op, amount, arg,
                       index, i, migration, err, pre, trace,
                       runTable, afterUp>>

\* --------------------------------------------------------- CurrentVersion
\* SELECT version FROM t ORDER BY version DESC LIMIT 1, run on db.conn
\* outside any transaction: the query fails when the table does not exist,
\* returns 0 when it has no row, else the version of the first row.
QueryCurrentVersion(d, t) ==
    IF ~d.tables[t].exists THEN
        [called |-> TRUE, err |-> "storage", version |-> 0]
    ELSE IF d.tables[t].rows = {} THEN
        [called |-> TRUE, err |-> "ok", version |-> 0]
    ELSE
        [called |-> TRUE, err |-> "ok",
         version |-> Max({ r.version : r \in d.tables[t].rows })]

CurrentVersion ==
    /\ pc = "idle"
    /\ cv' = QueryCurrentVersion(db, migrationTable)
    /\ cv' # cv
    /\ UNCHANGED <<migrations, sortedMs, migrationTable, db, tx, pc, op,
                   amount, arg, index, i, migration, err, pre, trace,
                       runTable, afterUp>>

Next ==
    \/ MigrateUpBegin
    \/ MigrateUpStep
    \/ MigrateUpInsert
    \/ MigrateUpCommit
    \/ MigrateDownBegin
    \/ MigrateDownStep
    \/ MigrateDownDelete
    \/ MigrateDownCommit
    \/ SetMigrationTable
    \/ CurrentVersion

Spec == Init /\ [][Next]_vars

\* ------------------------------------------- a partly applied collection
\* The records at the positions P of ms pass every check of MigrateUp and
\* their ledger rows break no UNIQUE constraint: MigrateUp of those records
\* alone succeeds on a fresh database.
Applicable(ms, P) ==
    /\ \A k \in P : ~Unset(ms[k]) /\ ~MissingOp(ms[k])
    /\ \A j, k \in P : j # k => /\ ms[j].Version # ms[k].Version
                                 /\ ms[j].Description # ms[k].Description

\* The database a successful MigrateUp of the records at the positions P
\* leaves behind: the default ledger table with one row per record, the
\* forward change of each of them in force once.
AppliedDatabase(ms, P) ==
    [tables |-> [t \in TableNames |->
        IF t = DefaultTable
        THEN [exists |-> TRUE,
              rows |-> { [version |-> ms[k].Version,
                          description |-> ms[k].Description] : k \in P }]
        ELSE NoTable],
     schema |-> [k \in 1..Len(ms) |-> IF k \in P THEN 1 ELSE 0]]

\* The engine is constructed over a database on which an earlier process
\* has applied some of the records of the collection (P = {} is the
\* database whose ledger table exists and is empty).
InitApplied ==
    /\ \E n \in 0..MaxLen :
        \E f \in [1..n -> [Version : Versions, Description : Descriptions,
                           up : BOOLEAN, down : BOOLEAN]] :
            migrations = [k \in 1..n |->
                [Version |-> f[k].Version,
                 Description |-> f[k].Description,
                 Up |-> IF f[k].up THEN k ELSE NilOp,
                 Down |-> IF f[k].down THEN k ELSE NilOp]]
    /\ sortedMs \in SortedOutcomes(migrations)
    /\ migrationTable = DefaultTable
    /\ \E P \in SUBSET (1..Len(migrations)) :
        /\ Applicable(migrations, P)
        /\ db = AppliedDatabase(migrations, P)
    /\ tx = db
    /\ pc = "idle"
    /\ op = "none"
    /\ amount = 0
    /\ arg = 0
    /\ index = <<>>
    /\ i = 0
    /\ migration = NoMigration
    /\ err = "none"
    /\ pre = db
    /\ trace = <<>>
    /\ runTable = DefaultTable
    /\ afterUp = FALSE
    /\ cv = NoVersion

SpecApplied == InitApplied /\ [][Next]_vars

\* ------------------------------------------- two engines, one database
\* Two Database values over the same SQLite file, each with its own
\* connection.  In this specification tx, pc, index, i, migration, err, pre
\* and trace hold one value per engine, db is the committed database both
\* see, and pre[e] is the committed database engine e's transaction started
\* from; only MigrateUp is called.
Engines == {1, 2}

\* Engine o has a transaction open: it has read the database and holds the
\* shared lock until it commits or rolls back.
OpenTx(o) == pc[o] # "idle"

\* Engine o has written in its open transaction: it holds the write lock.
Writing(o) == OpenTx(o) /\ tx[o] # pre[o]

\* Mutant: a write never meets a lock.
WriteNeverBlocked(e) == FALSE

\* A write statement of engine e returns "database is locked": another
\* connection holds the write lock, or the database has been committed to
\* since the transaction of e first read it.
WriteBlocked(e) == db # pre[e] \/ \E o \in Engines \ {e} : Writing(o)

\* The commit of engine e has changes to write while another connection
\* still reads: in rollback-journal mode it cannot get the exclusive lock
\* and returns "database is locked" once the busy timeout is over (in WAL
\* mode it goes through).
CommitContended(e) == tx[e] # pre[e] /\ \E o \in Engines \ {e} : OpenTx(o)

\* The committed database after a transaction that started from base and
\* sees view has committed: what it added is added.
Merge(committed, base, view) ==
    [tables |-> [t \in TableNames |->
        [exists |-> committed.tables[t].exists \/ view.tables[t].exists,
         rows |-> committed.tables[t].rows
                    \cup (view.tables[t].rows \ base.tables[t].rows)]],
     schema |-> [k \in DOMAIN committed.schema |->
        committed.schema[k] + view.schema[k] - base.schema[k]]]

InitEngines ==
    /\ \E n \in 0..MaxLen :
        \E f \in [1..n -> [Version : Versions, Description : Descriptions,
                           up : BOOLEAN, down : BOOLEAN]] :
            migrations = [k \in 1..n |->
                [Version |-> f[k].Version,
                 Description |-> f[k].Description,
                 Up |-> IF f[k].up THEN k ELSE NilOp,
                 Down |-> IF f[k].down THEN k ELSE NilOp]]
    /\ sortedMs \in SortedOutcomes(migrations)
    /\ migrationTable = DefaultTable
    /\ \/ db = [tables |-> [t \in TableNames |-> NoTable],
                schema |-> [k \in 1..Len(migrations) |-> 0]]
       \/ \E P \in SUBSET (1..Len(migrations)) :
            /\ Applicable(migrations, P)
            /\ db = AppliedDatabase(migrations, P)
    /\ tx = [e \in Engines |-> db]
    /\ pre = [e \in Engines |-> db]
    /\ pc = [e \in Engines |-> "idle"]
    /\ index = [e \in Engines |-> <<>>]
    /\ i = [e \in Engines |-> 0]
    /\ migration = [e \in Engines |-> NoMigration]
    /\ err = [e \in Engines |-> "none"]
    /\ trace = [e \in Engines |-> <<>>]
    /\ op = "none"
    /\ amount = 0
    /\ arg = 0
    /\ runTable = DefaultTable
    /\ afterUp = FALSE
    /\ cv = NoVersion

\* MigrateUp of engine e returns v and leaves the committed database as d.
EngineReturn(e, v, d) ==
    /\ pc' = [pc EXCEPT ![e] = "idle"]
    /\ err' = [err EXCEPT ![e] = v]
    /\ db' = d
    /\ tx' = [tx EXCEPT ![e] = pre[e]]
    /\ i' = [i EXCEPT ![e] = 0]
    /\ migration' = [migration EXCEPT ![e] = NoMigration]

EngineFail(e, v) == EngineReturn(e, v, db)

\* BeginTx, createMigrationTable, getMigrationIndex of engine e.
EngineUpBegin(e) ==
    /\ pc[e] = "idle"
    /\ pre' = [pre EXCEPT ![e] = db]
    /\ trace' = [trace EXCEPT ![e] = <<>>]
    /\ IF /\ ~db.tables[migrationTable].exists
          /\ \E o \in Engines \ {e} : Writing(o)
       THEN \* CREATE TABLE is a write
            /\ err' = [err EXCEPT ![e] = "busy"]
            /\ tx' = [tx EXCEPT ![e] = db]
            /\ index' = [index EXCEPT ![e] = <<>>]
            /\ UNCHANGED <<pc, i>>
       ELSE /\ tx' = [tx EXCEPT ![e] = CreateMigrationTable(db, migrationTable)]
            /\ index' = [index EXCEPT ![e] =
                    GetMigrationIndex(CreateMigrationTable(db, migrationTable),
                                      migrationTable)]
            /\ i' = [i EXCEPT ![e] = 1]
            /\ err' = [err EXCEPT ![e] = "running"]
            /\ pc' = [pc EXCEPT ![e] = "up"]
    /\ UNCHANGED <<migrations, sortedMs, migrationTable, db, migration, op,
                   amount, arg, runTable, afterUp, cv>>

\* One iteration of the range loop of engine e up to and including
\* migration.Up(tx).
EngineUpStep(e) ==
    /\ pc[e] = "up"
    /\ i[e] <= Len(sortedMs)
    /\ LET m == sortedMs[i[e]] IN
        IF Unset(m) THEN
            EngineFail(e, "validation") /\ UNCHANGED trace
        ELSE IF MissingOp(m) THEN
            EngineFail(e, "validation") /\ UNCHANGED trace
        ELSE IF Contains(index[e], m.Version) THEN
            /\ i' = [i EXCEPT ![e] = @ + 1]
            /\ UNCHANGED <<db, tx, pc, err, migration, trace>>
        ELSE IF WriteBlocked(e) THEN
            EngineFail(e, "busy") /\ UNCHANGED trace
        ELSE
            \/ EngineFail(e, "operation") /\ UNCHANGED trace
            \/ /\ tx' = [tx EXCEPT ![e] = ApplyUp(@, m.Up)]
               /\ trace' = [trace EXCEPT ![e] = Append(@, Event("up", m, m.Up))]
               /\ migration' = [migration EXCEPT ![e] = m]
               /\ pc' = [pc EXCEPT ![e] = "upInsert"]
               /\ UNCHANGED <<db, err, i>>
    /\ UNCHANGED <<migrations, sortedMs, migrationTable, op, amount, arg,
                   index, pre, runTable, afterUp, cv>>

\* db.insertMigration of engine e; it holds the write lock since its
\* forward operation.
EngineUpInsert(e) ==
    /\ pc[e] = "upInsert"
    /\ IF UniqueViolation(tx[e].tables[migrationTable].rows,
                          migration[e].Version, migration[e].Description) THEN
            EngineFail(e, "storage") /\ UNCHANGED trace
       ELSE
            /\ tx' = [tx EXCEPT ![e] =
                    InsertMigration(@, migrationTable, migration[e].Version,
                                    migration[e].Description)]
            /\ trace' = [trace EXCEPT ![e] =
                    Append(@, Event("insert", migration[e], NilOp))]
            /\ i' = [i EXCEPT ![e] = @ + 1]
            /\ migration' = [migration EXCEPT ![e] = NoMigration]
            /\ pc' = [pc EXCEPT ![e] = "up"]
            /\ UNCHANGED <<db, err>>
    /\ UNCHANGED <<migrations, sortedMs, migrationTable, op, amount, arg,
                   index, pre, runTable, afterUp, cv>>

\* The loop of engine e is over: return tx.Commit().
EngineUpCommit(e) ==
    /\ pc[e] = "up"
    /\ i[e] > Len(sortedMs)
    /\ \/ EngineReturn(e, "ok", Merge(db, pre[e], tx[e]))
       \/ CommitContended(e) /\ EngineFail(e, "busy")
    /\ UNCHANGED <<migrations, sortedMs, migrationTable, op, amount, arg,
                   index, pre, trace, runTable, afterUp, cv>>

NextEngines ==
    \E e \in Engines :
        \/ EngineUpBegin(e)
        \/ EngineUpStep(e)
        \/ EngineUpInsert(e)
        \/ EngineUpCommit(e)

SpecEngines == InitEngines /\ [][NextEngines]_vars

\* ------------------------------------------------------------ type check
LedgerRows == [version : Versions, description : Descriptions]
Databases(n) ==
    [tables : [TableNames -> [exists : BOOLEAN, rows : SUBSET LedgerRows]],
     schema : [1..n -> 0..Cardinality(TableNames)]]

TypeOK ==
    /\ IsMigrations(migrations)
    /\ sortedMs \in SortedOutcomes(migrations)
    /\ migrationTable \in TableNames
    /\ db \in Databases(Len(migrations))
    /\ tx \in Databases(Len(migrations))
    /\ pc \in {"idle", "up", "upInsert", "down", "downDelete"}
    /\ op \in {"none", "up", "down"}
    /\ amount \in Amounts
    /\ arg \in Amounts
    /\ i \in 0..(MaxLen + 1)
    /\ err \in {"none", "running", "ok", "validation", "operation", "storage",
                "precondition", "existence", "panic"}
    /\ afterUp \in BOOLEAN
    /\ runTable \in TableNames
    /\ pc = "idle" => tx = db

\* ------------------------------------------------- vocabulary of claims
\* The call of the given kind has returned; err holds what it returned.
Completed(kind) == pc = "idle" /\ op = kind

\* The versions in ledger table t of database d.
LedgerVersions(d, t) == { r.version : r \in d.tables[t].rows }

VersionsOf(ms) == { ms[k].Version : k \in 1..Len(ms) }

\* The versions of the set are exactly 1..N (and hence unique).
DenseVersions(ms) == VersionsOf(ms) = 1..Len(ms)

NonEmptyDescriptions(ms) == \A k \in 1..Len(ms) : ms[k].Description # ""

UniqueDescriptions(ms) ==
    \A j, k \in 1..Len(ms) : j # k => ms[j].Description # ms[k].Description

OpsDefined(ms) == \A k \in 1..Len(ms) : ms[k].Up # NilOp /\ ms[k].Down # NilOp

\* The events of one kind in a trace, in order.
Only(ev, tr) == SelectSeq(tr, LAMBDA e : e.ev = ev)

\* The previous call was a successful MigrateUp on the table of this call.
AfterSuccessfulUp == afterUp

\* The k-th record's forward change is in force in database d.
InForce(d, k) == d.schema[k] >= 1

\* ---------------------------------------------------------------- C1
\* C1 as claimed: for every set with versions 1..N, non-empty descriptions
\* and defined forward and reverse operations, a MigrateUp on an empty
\* ledger returns success, leaves the ledger holding exactly 1..N and every
\* forward change in force.  (Read in the claim's favour: in runs where no
\* forward operation returns an error.)
C1_AsClaimed ==
    (/\ Completed("up")
     /\ DenseVersions(migrations)
     /\ NonEmptyDescriptions(migrations)
     /\ OpsDefined(migrations)
     /\ LedgerVersions(pre, runTable) = {}
     /\ err # "operation")
    => /\ err = "ok"
       /\ LedgerVersions(db, runTable) = 1..Len(migrations)
       /\ \A k \in 1..Len(migrations) : InForce(db, k)

\* C1 amended: the same, for sets whose descriptions are also pairwise
\* distinct, in runs where no forward operation returns an error.
C1_UpAppliesAll ==
    (/\ Completed("up")
     /\ DenseVersions(migrations)
     /\ NonEmptyDescriptions(migrations)
     /\ UniqueDescriptions(migrations)
     /\ OpsDefined(migrations)
     /\ LedgerVersions(pre, runTable) = {}
     /\ err # "operation")
    => /\ err = "ok"
       /\ LedgerVersions(db, runTable) = 1..Len(migrations)
       /\ \A k \in 1..Len(migrations) : InForce(db, k)

\* A two-record set given in descending order was applied in full.
C1_Witness ==
    /\ Completed("up")
    /\ DenseVersions(migrations)
    /\ UniqueDescriptions(migrations)
    /\ LedgerVersions(pre, runTable) = {}
    /\ Len(migrations) = 2
    /\ migrations[1].Version = 2
    /\ err = "ok"
    /\ LedgerVersions(db, runTable) = {1, 2}

\* ---------------------------------------------------------------- C2
\* C2: a MigrateUp that follows a successful MigrateUp (same set, same
\* table) executes no forward operation, inserts no ledger entry, returns
\* success and leaves ledger and schema as they were.
C2_UpIdempotent ==
    (Completed("up") /\ AfterSuccessfulUp)
    => /\ err = "ok"
       /\ trace = <<>>
       /\ db = pre

\* The second run found both versions of a two-record set in the index.
C2_Witness ==
    /\ Completed("up")
    /\ AfterSuccessfulUp
    /\ Len(index) = 2
    /\ err = "ok"

\* ---------------------------------------------------------------- C3
\* C3: a MigrateUp that returns an error leaves the committed database
\* (ledger tables and schema) exactly as it was before the call.
C3_UpAllOrNothing ==
    (Completed("up") /\ err # "ok") => db = pre

\* A run failed after a forward operation and its ledger insert succeeded.
C3_Witness ==
    /\ Completed("up")
    /\ err \in {"validation", "operation", "storage"}
    /\ Len(Only("insert", trace)) >= 1
    /\ db = pre

\* ---------------------------------------------------------------- C4
\* The ledger and schema after reverting the n highest of the versions 1..N.
RevertedTop(n) ==
    /\ LedgerVersions(db, runTable) = 1..(Len(migrations) - n)
    /\ { e.version : e \in { trace[x] : x \in 1..Len(trace) } } =
            (Len(migrations) - n + 1)..Len(migrations)
    /\ Len(Only("down", trace)) = n
    /\ Len(Only("delete", trace)) = n
    /\ \A k \in 1..Len(migrations) :
        db.schema[k] = IF migrations[k].Version > Len(migrations) - n
                       THEN pre.schema[k] - 1 ELSE pre.schema[k]

\* C4 as claimed: after a successful MigrateUp on versions 1..N,
\* MigrateDown(k), k >= 1, returns success, removes exactly the min(k, N)
\* highest ledger entries and executes exactly their reverse operations.
\* (Read in the claim's favour: in runs where no reverse operation returns
\* an error.)
C4_AsClaimed ==
    (/\ Completed("down")
     /\ AfterSuccessfulUp
     /\ DenseVersions(migrations)
     /\ arg >= 1
     /\ err # "operation")
    => /\ err = "ok"
       /\ RevertedTop(IF arg > Len(migrations) THEN Len(migrations) ELSE arg)

\* C4 amended: the same for N >= 1, in runs where no reverse operation
\* returns an error.
C4_DownRevertsTop ==
    (/\ Completed("down")
     /\ AfterSuccessfulUp
     /\ DenseVersions(migrations)
     /\ Len(migrations) >= 1
     /\ arg >= 1
     /\ err # "operation")
    => /\ err = "ok"
       /\ RevertedTop(IF arg > Len(migrations) THEN Len(migrations) ELSE arg)

\* MigrateDown(3) on a fully applied two-record set reverted both.
C4_Witness ==
    /\ Completed("down")
    /\ AfterSuccessfulUp
    /\ DenseVersions(migrations)
    /\ Len(migrations) = 2
    /\ arg > Len(migrations)
    /\ err = "ok"
    /\ LedgerVersions(db, runTable) = {}
    /\ Len(Only("down", trace)) = 2

\* ---------------------------------------------------------------- C5
\* C5: MigrateDown on an empty applied index returns the precondition
\* error whatever the amount, executes no reverse operation and leaves
\* ledger and schema unchanged.
C5_DownOnEmpty ==
    (Completed("down") /\ LedgerVersions(pre, runTable) = {})
    => /\ err = "precondition"
       /\ trace = <<>>
       /\ db = pre

\* MigrateDown with a non-positive amount met an existing, empty ledger.
C5_Witness ==
    /\ Completed("down")
    /\ pre.tables[runTable].exists
    /\ LedgerVersions(pre, runTable) = {}
    /\ arg <= 0
    /\ err = "precondition"

\* ---------------------------------------------------------------- C6
\* A record with version 0 or an empty description.
Malformed(m) == m.Version = 0 \/ m.Description = ""

HasMalformed(ms) == \E k \in 1..Len(ms) : Malformed(ms[k])

\* The position in sorted order of the first malformed record.
FirstMalformed(s) == Min({ x \in 1..Len(s) : Malformed(s[x]) })

\* C6 as claimed: when the set holds a record with version 0 or an empty
\* description, at any position of the sorted order, MigrateUp fails before
\* any forward operation of any record is executed.  (Stated for sets with
\* pairwise distinct versions, where the sorted order is unique.)
C6_AsClaimed ==
    (/\ op = "up"
     /\ HasMalformed(migrations)
     /\ Cardinality(VersionsOf(migrations)) = Len(migrations))
    => /\ Only("up", trace) = <<>>
       /\ Completed("up") => err # "ok"

\* C6 amended: such a MigrateUp returns an error and commits nothing; it
\* executes no forward operation of the malformed record or of a record
\* sorted after it, and none at all when a record has version 0 (it sorts
\* first).  Forward operations of records sorted before the malformed one
\* may run inside the transaction, which is rolled back.
C6_MalformedAbortsUp ==
    (op = "up" /\ HasMalformed(migrations))
    => /\ Completed("up") => (err # "ok" /\ db = pre)
       /\ \A x \in 1..Len(trace) :
            trace[x].ev = "up" =>
                \E y \in 1..(FirstMalformed(sortedMs) - 1) :
                    sortedMs[y].Up = trace[x].fn
       /\ (\E k \in 1..Len(migrations) : migrations[k].Version = 0)
            => Only("up", trace) = <<>>

\* The record with the empty description sorts last: the forward operation
\* of the record before it ran, then the run failed validation.
C6_Witness ==
    /\ Completed("up")
    /\ HasMalformed(migrations)
    /\ FirstMalformed(sortedMs) = 2
    /\ sortedMs[2].Description = ""
    /\ Len(Only("up", trace)) = 1
    /\ err = "validation"
    /\ db = pre

\* ---------------------------------------------------------------- C7
\* No ledger table other than the engine's has ever been committed: the
\* case of an engine whose table name was never changed.
SingleTable ==
    \A t \in TableNames \ {migrationTable} : ~db.tables[t].exists

\* C7: with a fixed migration set and table name, in every reachable state
\* a version is in the committed ledger exactly when the forward change of
\* its record is committed and not reverted.
C7_LedgerAgreesWithSchema ==
    SingleTable
    => \A k \in 1..Len(migrations) :
        /\ (migrations[k].Version \in LedgerVersions(db, migrationTable))
                <=> InForce(db, k)
        /\ db.schema[k] <= 1

\* After MigrateUp and MigrateDown(1) on a two-record set, version 1 is in
\* the ledger with its change in force, version 2 is in neither.
C7_Witness ==
    /\ SingleTable
    /\ Completed("down")
    /\ err = "ok"
    /\ Len(migrations) = 2
    /\ LedgerVersions(db, migrationTable) = {1}
    /\ \A k \in 1..2 : db.schema[k] = (IF migrations[k].Version = 1 THEN 1 ELSE 0)
    /\ Len(Only("down", trace)) = 1

\* ---------------------------------------------------------------- C8
\* The highest version of a ledger, 0 for none.
HighestVersion(d, t) ==
    IF LedgerVersions(d, t) = {} THEN 0 ELSE Max(LedgerVersions(d, t))

\* C8 as claimed: CurrentVersion returns the highest version in the ledger,
\* and 0 without error when none is applied, in every state, also before
\* any MigrateUp or MigrateDown has run.
C8_AsClaimed ==
    cv.called
    => /\ cv.err = "ok"
       /\ cv.version = HighestVersion(db, migrationTable)

InsertFollowsUp(tr) ==
    \A x \in 1..Len(tr) :
        IF x % 2 = 1 THEN tr[x].ev = "up"
        ELSE tr[x].ev = "insert" /\ tr[x].version = tr[x - 1].version

\* C10 as claimed: in a MigrateUp run the forward operations are executed
\* in strictly ascending version order, each followed by its own ledger
\* insert before the next forward operation.
C10_AsClaimed ==
    op = "up"
    => /\ InsertFollowsUp(trace)
       /\ \A x, y \in 1..Len(trace) :
            (x < y /\ trace[x].ev = "up" /\ trace[y].ev = "up")
                => trace[x].version < trace[y].version

\* C10 amended: the forward operations are executed in ascending version
\* order whatever the order of the caller's collection, strictly ascending
\* when the versions of the set are pairwise distinct; each is followed by
\* its own ledger insert before the next forward operation.
C10_UpInVersionOrder ==
    op = "up"
    => /\ InsertFollowsUp(trace)
       /\ \A x, y \in 1..Len(trace) :
            (x < y /\ trace[x].ev = "up" /\ trace[y].ev = "up")
                => /\ trace[x].version <= trace[y].version
                   /\ Cardinality(VersionsOf(migrations)) = Len(migrations)
                        => trace[x].version < trace[y].version

\* A collection given in descending order was applied in ascending order.
C10_Witness ==
    /\ Completed("up")
    /\ err = "ok"
    /\ Len(migrations) = 2
    /\ migrations[1].Version > migrations[2].Version
    /\ Len(trace) = 4
    /\ trace[1].version < trace[3].version

\* ---------------------------------------------------------------- C11
\* Every reverse operation of a trace is followed at once by the ledger
\* delete of the same version (the last one may still be about to be
\* followed), and nothing else is in the trace.
DeleteFollowsDown(tr) ==
    \A k \in 1..Len(tr) :
        IF k % 2 = 1
        THEN tr[k].ev = "down" /\ (k = Len(tr) => pc = "downDelete")
        ELSE tr[k].ev = "delete" /\ tr[k].version = tr[k - 1].version

\* C11: within one MigrateDown run the reverse operations are executed in
\* strictly descending order of applied version, the k-th of them for the
\* k-th highest version of the applied index, and each ledger delete comes
\* after its own reverse operation and before the next one.
C11_DownMostRecentFirst ==
    op = "down" =>
        /\ DeleteFollowsDown(trace)
        /\ LET downs == Only("down", trace) IN
            /\ \A j, k \in 1..Len(downs) :
                    j < k => downs[j].version > downs[k].version
            /\ \A k \in 1..Len(downs) :
                    downs[k].version = index[Len(index) + 1 - k]

\* A MigrateDown has reverted two records and returned success.
C11_Witness ==
    /\ Completed("down")
    /\ err = "ok"
    /\ Len(Only("down", trace)) = 2
    /\ Len(Only("delete", trace)) = 2

\* ---------------------------------------------------------------- C12
\* A record whose forward or reverse operation is not defined.
Undefined(m) == m.Up = NilOp \/ m.Down = NilOp

HasUndefined(ms) == \E k \in 1..Len(ms) : Undefined(ms[k])

\* No forward operation of a record with an undefined operation is in the
\* trace of a MigrateUp, and a MigrateUp over a set holding such a record
\* commits nothing and does not return success.
UndefinedNeverApplied ==
    op = "up" =>
        /\ \A x \in 1..Len(trace) :
                trace[x].ev = "up" =>
                    \A k \in 1..Len(migrations) :
                        migrations[k].Up = trace[x].fn => ~Undefined(migrations[k])
        /\ HasUndefined(migrations) => (db = pre /\ err # "ok")

\* The iteration of MigrateUp that meets a record with an undefined
\* operation ends the run with a validation error, everything rolled back,
\* whether or not the version of the record is in the applied index.
UndefinedMetFails ==
    (pc = "up" /\ i <= Len(sortedMs) /\ Undefined(sortedMs[i]))
    => (pc' = "idle" /\ err' = "validation" /\ db' = pre /\ trace' = trace)

\* C12: a record whose forward or reverse operation is undefined is never
\* applied: in no MigrateUp run is its forward operation executed or a
\* ledger entry committed, and the run that meets it fails with a validation
\* error, also when its version is already in the ledger.
C12_UndefinedOpAbortsUp == []UndefinedNeverApplied /\ [][UndefinedMetFails]_vars

\* A MigrateUp failed validation on a record with a version and a
\* description but no reverse operation, whose version was in the ledger
\* when the run began.
C12_Witness ==
    /\ Completed("up")
    /\ err = "validation"
    /\ ~HasMalformed(migrations)
    /\ \E k \in 1..Len(migrations) :
        /\ migrations[k].Down = NilOp
        /\ migrations[k].Up # NilOp
        /\ migrations[k].Version \in LedgerVersions(pre, runTable)

\* ---------------------------------------------------------------- C13
DistinctVersions(ms) == Cardinality(VersionsOf(ms)) = Len(ms)

\* How many times record r occurs in the sequence s.
Occurrences(s, r) == Cardinality({ k \in 1..Len(s) : s[k] = r })

\* s holds the records of ms, each as often as ms does.
SameRecords(s, ms) ==
    /\ Len(s) = Len(ms)
    /\ \A k \in 1..Len(ms) : Occurrences(s, ms[k]) = Occurrences(ms, ms[k])

StrictlyAscending(s) ==
    \A x, y \in 1..Len(s) : x < y => s[x].Version < s[y].Version

\* What Sorted() returned for a collection with distinct versions holds the
\* same records in strictly ascending version order, and no other call of
\* it can return anything else.
SortedAscending ==
    DistinctVersions(migrations) =>
        /\ SameRecords(sortedMs, migrations)
        /\ StrictlyAscending(sortedMs)
        /\ SortedOutcomes(migrations) = {sortedMs}

\* C13: Sorted() returns, for records with distinct versions in any order,
\* the same records in strictly ascending version order; a second call gives
\* the same output; the collection it is called on is never changed.
C13_SortedIsPure == []SortedAscending /\ [][migrations' = migrations]_vars

\* A collection of two records given in descending version order has been
\* sorted into the other order and applied in that order, the collection
\* itself still as given.
C13_Witness ==
    /\ Len(migrations) = 2
    /\ migrations[1].Version > migrations[2].Version
    /\ sortedMs = <<migrations[2], migrations[1]>>
    /\ Completed("up")
    /\ err = "ok"
    /\ Len(Only("up", trace)) = 2

\* ---------------------------------------------------------------- C14
\* How many times the forward operation of the k-th record is in a trace.
TimesUp(tr, k) ==
    Cardinality({ x \in 1..Len(tr) : tr[x].ev = "up" /\ tr[x].fn = k })

\* C14: starting from a ledger holding any subset S of the versions of the
\* set, a successful MigrateUp executes the forward operation of exactly the
\* records whose version is not in S, each once, none for a version in S,
\* and ends with the ledger holding every version of the set.
C14_UpAppliesTheRest ==
    (/\ Completed("up")
     /\ err = "ok"
     /\ LedgerVersions(pre, runTable) \subseteq VersionsOf(migrations))
    => /\ \A k \in 1..Len(migrations) :
            TimesUp(trace, k) =
                (IF migrations[k].Version \in LedgerVersions(pre, runTable)
                 THEN 0 ELSE 1)
       /\ LedgerVersions(db, runTable) = VersionsOf(migrations)

\* A successful MigrateUp over two records of which only the one with the
\* higher version was applied before: it ran the forward operation of the
\* other one alone.
C14_Witness ==
    /\ Completed("up")
    /\ err = "ok"
    /\ Len(migrations) = 2
    /\ LedgerVersions(pre, runTable) = {sortedMs[2].Version}
    /\ sortedMs[1].Version < sortedMs[2].Version
    /\ Len(trace) = 2
    /\ trace[1].ev = "up"
    /\ trace[1].fn = sortedMs[1].Up
    /\ LedgerVersions(db, runTable) = VersionsOf(migrations)

\* ---------------------------------------------------------------- C15
\* The versions of the set are positive and pairwise distinct.
UniquePositiveVersions(ms) ==
    /\ DistinctVersions(ms)
    /\ \A k \in 1..Len(ms) : ms[k].Version >= 1

\* Unique positive versions that are not 1..N.
GappedVersions(ms) == UniquePositiveVersions(ms) /\ ~DenseVersions(ms)

\* The applied version the k-th reverse operation of the run was looked up
\* for.
Visited(k) == index[Len(index) + 1 - k]

\* Some reverse operation of the trace belongs to a record whose version is
\* not the applied version it was looked up for.
RevertsWrongRecord ==
    \E k \in 1..Len(Only("down", trace)) :
        Only("down", trace)[k].version # Visited(k)

\* C15 as claimed: for a set whose versions are unique and positive but not
\* 1..N, a MigrateDown run that visits an applied version reverts the wrong
\* record.  (Read in the claim's favour: in runs of at least one step over
\* a non-empty ledger in which no reverse operation returns an error.)
C15_AsClaimed ==
    (/\ Completed("down")
     /\ GappedVersions(migrations)
     /\ arg >= 1
     /\ err \notin {"precondition", "operation"})
    => RevertsWrongRecord

\* C15 amended: for unique positive versions MigrateDown never reverts a
\* wrong record; when every version of a set with gaps is applied, a
\* MigrateDown of at least one step aborts at its first lookup with an
\* out-of-range access, nothing reverted or deleted.
C15_GapsAbortDown ==
    /\ (op = "down" /\ UniquePositiveVersions(migrations))
            => ~RevertsWrongRecord
    /\ (/\ Completed("down")
        /\ GappedVersions(migrations)
        /\ LedgerVersions(pre, runTable) = VersionsOf(migrations)
        /\ arg >= 1)
       => (err = "panic" /\ trace = <<>> /\ db = pre)

\* MigrateDown(1) after the records with versions 1 and 3 were applied:
\* the lookup of position 3 in a list of two aborted the run.
C15_Witness ==
    /\ Completed("down")
    /\ VersionsOf(migrations) = {1, 3}
    /\ LedgerVersions(pre, runTable) = {1, 3}
    /\ arg = 1
    /\ err = "panic"
    /\ LedgerVersions(db, runTable) = {1, 3}

\* ---------------------------------------------------------------- C16
\* The versions held by a sequence.
Elements(s) == { s[k] : k \in 1..Len(s) }

\* C16: a MigrateUp or MigrateDown run, also the first one after
\* SetMigrationTable(t), reads its applied index from table t alone, writes
\* no other ledger table, committed or inside the transaction, and so leaves
\* the entries of the previous table as they were; a MigrateUp against the
\* new, empty table, after every record was applied under the previous one,
\* executes every forward operation of the set again.  (The last part for
\* runs in which no forward operation returns an error.)
C16_RunsUseOwnTable ==
    op \in {"up", "down"} =>
        /\ Elements(index) = LedgerVersions(pre, runTable)
        /\ \A t \in TableNames \ {runTable} :
                db.tables[t] = pre.tables[t] /\ tx.tables[t] = pre.tables[t]
        /\ (/\ Completed("up")
            /\ LedgerVersions(pre, runTable) = {}
            /\ \A k \in 1..Len(migrations) : InForce(pre, k)
            /\ err # "operation")
           => /\ err = "ok"
              /\ \A k \in 1..Len(migrations) : TimesUp(trace, k) = 1
              /\ LedgerVersions(db, runTable) = VersionsOf(migrations)

\* Two records were applied under the default table; after
\* SetMigrationTable a MigrateUp has executed both forward operations once
\* more and recorded them in the new table, the default table as before.
C16_Witness ==
    /\ Completed("up")
    /\ err = "ok"
    /\ runTable # DefaultTable
    /\ Len(migrations) = 2
    /\ LedgerVersions(pre, DefaultTable) = VersionsOf(migrations)
    /\ LedgerVersions(pre, runTable) = {}
    /\ Len(Only("up", trace)) = 2
    /\ \A k \in 1..2 : db.schema[k] = 2
    /\ db.tables[DefaultTable] = pre.tables[DefaultTable]
    /\ LedgerVersions(db, runTable) = VersionsOf(migrations)

\* ---------------------------------------------------------------- C17
\* A set that one engine alone applies without a validation or storage
\* error.
ValidSet(ms) ==
    /\ UniquePositiveVersions(ms)
    /\ NonEmptyDescriptions(ms)
    /\ UniqueDescriptions(ms)
    /\ OpsDefined(ms)

RECURSIVE Sum(_, _)
\* The sum of f over the set S.
Sum(f, S) ==
    IF S = {} THEN 0
    ELSE LET x == CHOOSE y \in S : TRUE IN f[x] + Sum(f, S \ {x})

\* The committed ledger holds no version twice, no forward change is in
\* force twice, and there are as many ledger entries as forward changes in
\* force.
NothingTwice ==
    LET rows == db.tables[migrationTable].rows IN
    /\ Cardinality(rows) = Cardinality(LedgerVersions(db, migrationTable))
    /\ \A k \in 1..Len(migrations) : db.schema[k] <= 1
    /\ Cardinality(rows) = Sum(db.schema, 1..Len(migrations))

\* A step in which an engine returns an error leaves the committed
\* database as it is.
FailedRunCommitsNothing ==
    \A e \in Engines :
        (err[e] = "running" /\ err'[e] \notin {"running", "ok"}) => db' = db

C18_AsClaimed ==
    (op = "down" /\ UniquePositiveVersions(migrations))
    => /\ err # "panic"
       /\ pc = "down" /\ DownLoopTest(i, Len(index), amount)
            => InRange(index[i], Len(sortedMs))

\* ---------------------------------------------------------------- C19
\* The versions of ledger table t of database d are 1..k for some k, none
\* (k = 0) up to all N of them.
IsPrefix(d, t, n) == \E k \in 0..n : LedgerVersions(d, t) = 1..k

\* C19: for a set with the dense versions 1..N, after any sequence of
\* MigrateUp and MigrateDown calls the applied versions of a ledger are a
\* prefix 1..k (0 <= k <= N) of the sorted versions, with no hole; the same
\* holds inside a running transaction.
C19_LedgerIsPrefix ==
    DenseVersions(migrations) =>
        \A t \in TableNames :
            /\ IsPrefix(db, t, Len(migrations))
            /\ IsPrefix(tx, t, Len(migrations))

\* MigrateUp, MigrateDown(1) and MigrateUp again on two records with the
\* versions 1 and 2: the ledger went from {1, 2} to {1} and back.
C19_Witness ==
    /\ DenseVersions(migrations)
    /\ Len(migrations) = 2
    /\ Completed("up")
    /\ err = "ok"
    /\ LedgerVersions(pre, runTable) = {1}
    /\ LedgerVersions(db, runTable) = {1, 2}

====
